---- MODULE Spec2Model ----
(***************************************************************************)
(* A model of the reichlab repository scripts:                             *)
(*   - get_hub_stats.py: paginated directory listing, concurrent row       *)
(*     counting, aggregation, per-repository persistence, report writing;  *)
(*   - the organisation scripts (rulesets, archiving, listing) and their   *)
(*     token check and HTTP session.                                       *)
(*                                                                         *)
(* Text is modelled as sequences of one-character strings, so that suffix  *)
(* tests and slicing are computed as the code computes them.               *)
(***************************************************************************)
EXTENDS Integers, Sequences, FiniteSets, TLC

(***************************************************************************)
(* Bounds of the model.                                                    *)
(***************************************************************************)
\* pages of one directory listing (a chain of next-links)
MaxPages == 2
\* entries on one page of a directory listing
MaxItems == 2

(***************************************************************************)
(* Program constants.                                                      *)
(***************************************************************************)
\* get_hub_stats.py:88  "For testing, limit number of files to process."
FILE_COUNT == 0

\* get_hub_stats.py:99  the two directories of a hub, in processing order
Directories == <<"model-output", "target-data">>

(***************************************************************************)
(* Text helpers.                                                           *)
(***************************************************************************)
DotCsv == <<".", "c", "s", "v">>
DotParquet == <<".", "p", "a", "r", "q", "u", "e", "t">>

\* str.endswith(suffix)
EndsWith(s, suf) ==
    /\ Len(s) >= Len(suf)
    /\ SubSeq(s, Len(s) - Len(suf) + 1, Len(s)) = suf

\* str.rfind("."): the last position of a period, 0 when there is none
LastDot(s) ==
    LET dots == {i \in 1..Len(s) : s[i] = "."}
    IN  IF dots = {} THEN 0 ELSE CHOOSE i \in dots : \A j \in dots : j <= i

\* pathlib's PurePath.suffix: from the last period of the name, unless that
\* period is the first or the last character of the name
PathSuffix(name) ==
    LET i == LastDot(name)
    IN  IF 1 < i /\ i < Len(name) THEN SubSeq(name, i, Len(name)) ELSE <<>>

(***************************************************************************)
(* The remote side of the contents API.                                    *)
(*                                                                         *)
(* A download URL is [path, name]: the directory path (a sequence of       *)
(* directory names below the repository root) and the file name.  The URL  *)
(* string ends with a suffix that holds no "/" exactly when its last       *)
(* segment, the file name, does.                                           *)
(*                                                                         *)
(* A remote is a function from directory paths to listings; a listing is a *)
(* sequence of pages [status, items]; page k carries a next-link exactly   *)
(* when page k+1 exists.  A path outside the remote's domain answers 404.  *)
(***************************************************************************)
FileEntry(path, name) ==
    [type |-> "file", name |-> name, path |-> path,
     download_url |-> [path |-> path, name |-> name]]

\* an entry that is neither a file nor a directory (the API also lists links)
LinkEntry(path, name) ==
    [type |-> "symlink", name |-> name, path |-> path,
     download_url |-> [path |-> path, name |-> name]]

DirEntry(path, name) ==
    [type |-> "dir", name |-> <<name>>, path |-> Append(path, name),
     download_url |-> [path |-> <<>>, name |-> <<>>]]

\* session.get(url) for page k of the listing of directory `path`
Respond(remote, path, k) ==
    IF path \in DOMAIN remote /\ k \in 1..Len(remote[path])
    THEN [status |-> remote[path][k].status,
          items  |-> remote[path][k].items,
          next   |-> k < Len(remote[path])]
    ELSE [status |-> 404, items |-> <<>>, next |-> FALSE]

(***************************************************************************)
(* list_files_in_directory (get_hub_stats.py:186-216).                     *)
(* The result is [raised, files, failed]: raised is TRUE when              *)
(* raise_for_status threw (the exception leaves the function, files are    *)
(* lost), and failed is then the status of the response it threw on (0     *)
(* otherwise).                                                             *)
(***************************************************************************)
\* "if response.status_code == 404"
NotFoundNever(status) == FALSE
NotFound(status) == status = 404

\* response.raise_for_status(): HTTPError for 4xx and 5xx
RaisesNever(status) == FALSE
RaisesForStatus(status) == 400 <= status /\ status < 600

\* item["type"] == "file" and item["download_url"].endswith((".csv", ".parquet"))
IsDataFile(item) ==
    /\ item.type = "file"
    /\ \/ EndsWith(item.download_url.name, DotCsv)
       \/ EndsWith(item.download_url.name, DotParquet)

\* "if 'next' in response.links": the page to request next, 0 for url = None
NextPageNone(resp, k) == 0
NextPage(resp, k) == IF resp.next THEN k + 1 ELSE 0

\* "FILE_COUNT > 0 and len(files) >= FILE_COUNT"
FileCountReached(files) == FILE_COUNT > 0 /\ Len(files) >= FILE_COUNT

RECURSIVE ListPagesFrom(_, _, _, _)
RECURSIVE ListItemsFrom(_, _, _, _)

\* the body of "for item in data", from item i on, with the files so far
ListItemsFrom(remote, items, i, files) ==
    IF i > Len(items) THEN [raised |-> FALSE, files |-> files, failed |-> 0]
    ELSE
      LET item == items[i]
          sub  == IF item.type = "dir"
                  THEN ListPagesFrom(remote, item.path, 1, <<>>)
                  ELSE [raised |-> FALSE, files |-> <<>>, failed |-> 0]
          now  == IF IsDataFile(item) THEN Append(files, item.download_url)
                  ELSE IF item.type = "dir" THEN files \o sub.files
                  ELSE files
      IN  IF sub.raised THEN [raised |-> TRUE, files |-> <<>>, failed |-> sub.failed]
          ELSE IF FileCountReached(now)
          THEN [raised |-> FALSE, files |-> now, failed |-> 0]
          ELSE ListItemsFrom(remote, items, i + 1, now)

\* one turn of "while url", requesting page k of directory `path`
ListPagesFrom(remote, path, k, files) ==
    LET resp == Respond(remote, path, k)
    IN  IF NotFound(resp.status) THEN [raised |-> FALSE, files |-> files, failed |-> 0]
        ELSE IF RaisesForStatus(resp.status)
        THEN [raised |-> TRUE, files |-> <<>>, failed |-> resp.status]
        ELSE
          LET r == ListItemsFrom(remote, resp.items, 1, files)
              n == NextPage(resp, k)
          IN  IF r.raised \/ n = 0 THEN r
              ELSE ListPagesFrom(remote, path, n, r.files)

list_files_in_directory(remote, directory) ==
    ListPagesFrom(remote, <<directory>>, 1, <<>>)

(***************************************************************************)
(* Inputs of the listing: bounded remotes.                                 *)
(* Names within one directory are distinct (a directory lists each name    *)
(* once); only the last page of a listing may fail, since a next-link is   *)
(* read from a successful response.                                        *)
(***************************************************************************)
NameA == <<"a">> \o DotCsv
NameB == <<"b">> \o DotParquet
NameC == <<"c", ".", "t", "x", "t">>
NameL == <<"l">> \o DotCsv
SubDir == "sub"

TopPath == <<Directories[1]>>
SubPath == Append(TopPath, SubDir)

StatusCodes == {200, 403, 404, 500}

Range(s) == {s[i] : i \in DOMAIN s}

SeqsUpTo(S, n) == UNION {[1..k -> S] : k \in 0..n}

RECURSIVE Flatten(_)
Flatten(ss) == IF ss = <<>> THEN <<>> ELSE Head(ss) \o Flatten(Tail(ss))

Injective(s) == \A i, j \in DOMAIN s : s[i] = s[j] => i = j

\* the listings of one directory whose entries are drawn from `kinds`
Listings(kinds) ==
    LET pageItems == {p \in SeqsUpTo(kinds, MaxItems) : Injective(p)}
        chains == {c \in SeqsUpTo(pageItems, MaxPages) :
                       Len(c) >= 1 /\ Injective(Flatten(c))}
        inputs == {x \in chains \X StatusCodes :
                       x[2] = 200 \/ x[1][Len(x[1])] = <<>>}
    IN  {[k \in 1..Len(x[1]) |->
            [status |-> IF k = Len(x[1]) THEN x[2] ELSE 200, items |-> x[1][k]]] :
            x \in inputs}

TopKinds == {FileEntry(TopPath, NameA), FileEntry(TopPath, NameC),
             LinkEntry(TopPath, NameL), DirEntry(TopPath, SubDir)}
SubKinds == {FileEntry(SubPath, NameA), FileEntry(SubPath, NameB)}

\* a listing that names the subdirectory
ListsSub(listing) ==
    \E k \in DOMAIN listing : \E i \in DOMAIN listing[k].items :
        listing[k].items[i].type = "dir"

Remotes ==
    {(TopPath :> top) @@ (SubPath :> sub) :
        top \in {l \in Listings(TopKinds) : ListsSub(l)}, sub \in Listings(SubKinds)}
    \cup {(TopPath :> top) : top \in {l \in Listings(TopKinds) : ~ListsSub(l)}}

(***************************************************************************)
(* Row counting (get_hub_stats.py:139-183).                                *)
(* An outcome is what the network gives for one file: [kind, n] with kind  *)
(* "ok" (n lines of text, or n rows in the parquet metadata), "none" (the  *)
(* metadata query yields no tuple) or "error" (the request or the query    *)
(* throws).                                                                *)
(***************************************************************************)
\* rows a file may hold
MaxRows == 1

\* count_rows_csv: raise_for_status, then len(response.text.splitlines())
count_rows_csv(outcome) ==
    IF outcome.kind = "ok" THEN [raised |-> FALSE, count |-> outcome.n]
    ELSE [raised |-> TRUE, count |-> 0]

\* count_rows_parquet: num_rows of the metadata, 0 when fetchone() is None
count_rows_parquet(outcome) ==
    IF outcome.kind = "ok" THEN [raised |-> FALSE, count |-> outcome.n]
    ELSE IF outcome.kind = "none" THEN [raised |-> FALSE, count |-> 0]
    ELSE [raised |-> TRUE, count |-> 0]

\* count_rows without its try/except: the exception leaves the function
count_rows_uncaught(file_url, outcome) ==
    LET file_type == PathSuffix(file_url.name)
        inner == IF file_type = DotCsv THEN count_rows_csv(outcome)
                 ELSE count_rows_parquet(outcome)
    IN  [raised |-> inner.raised, file |-> file_url.name, count |-> inner.count]

\* count_rows: dispatch on the suffix; "except Exception: count = 0"
count_rows(file_url, outcome) ==
    LET file_type == PathSuffix(file_url.name)
        inner == IF file_type = DotCsv THEN count_rows_csv(outcome)
                 ELSE count_rows_parquet(outcome)
    IN  [raised |-> FALSE, file |-> file_url.name,
         count  |-> IF inner.raised THEN 0 ELSE inner.count]

\* the statuses a failed download of a .csv file may be answered with
DownloadErrorStatuses == {503}

\* what the network may give for a file: a .csv file is requested through the
\* session and the response has a status; a .parquet file is read by duckdb
\* (status 0: no response of the session)
Outcomes(file_url) ==
    IF PathSuffix(file_url.name) = DotCsv
    THEN [kind : {"ok"}, n : 1..MaxRows, status : {200}]
         \cup [kind : {"error"}, n : {0}, status : DownloadErrorStatuses]
    ELSE [kind : {"ok"}, n : 1..MaxRows, status : {0}]
         \cup {[kind |-> "error", n |-> 0, status |-> 0],
               [kind |-> "none", n |-> 0, status |-> 0]}

(***************************************************************************)
(* Aggregation (get_hub_stats.py:108-131).                                 *)
(***************************************************************************)
\* the distinct file names of the results, in order of first occurrence
\* (the keys of the defaultdict, which keeps insertion order)
Keys(results) ==
    LET first == {i \in 1..Len(results) :
                      \A j \in 1..(i - 1) : results[j].file # results[i].file}
        F[n \in 0..Len(results)] ==
            IF n = 0 THEN <<>>
            ELSE IF n \in first THEN Append(F[n - 1], results[n].file)
            ELSE F[n - 1]
    IN  F[Len(results)]

\* all_counts[result[0]] = result[1]: the last count wins
CountForLast(results, file) ==
    LET idx == {i \in 1..Len(results) : results[i].file = file}
    IN  results[CHOOSE i \in idx : \A j \in idx : j <= i].count

\* all_counts[result[0]] += result[1] over all results
CountFor(results, file) ==
    LET S[n \in 0..Len(results)] ==
            IF n = 0 THEN 0
            ELSE S[n - 1] + (IF results[n].file = file THEN results[n].count ELSE 0)
    IN  S[Len(results)]

\* str.strip_chars_start("_-")
StripNothing(s, chars) == s
RECURSIVE StripCharsStart(_, _)
StripCharsStart(s, chars) ==
    IF s # <<>> /\ Head(s) \in chars THEN StripCharsStart(Tail(s), chars) ELSE s

\* str.splitn(".", 2), first field: the text before the first period
BeforeFirstDot(s) ==
    LET dots == {i \in 1..Len(s) : s[i] = "."}
    IN  IF dots = {} THEN s
        ELSE SubSeq(s, 1, (CHOOSE i \in dots : \A j \in dots : i <= j) - 1)

\* the model_id column: pl.when(dir == "model-output").then(
\*   file.str.slice(11).str.strip_chars_start("_-").str.splitn(".", 2) field 0)
ModelId(directory, file) ==
    IF directory = "model-output"
    THEN [null |-> FALSE,
          value |-> BeforeFirstDot(
                      StripCharsStart(SubSeq(file, 12, Len(file)), {"_", "-"}))]
    ELSE [null |-> TRUE, value |-> <<>>]

\* count_df of one batch: one row per key, with the dir, repo and model_id
CountDf(results, directory, repoFull) ==
    LET keys == Keys(results)
    IN  [k \in 1..Len(keys) |->
            [file      |-> keys[k],
             row_count |-> CountFor(results, keys[k]),
             dir       |-> directory,
             repo      |-> repoFull,
             model_id  |-> ModelId(directory, keys[k])]]

(***************************************************************************)
(* The hubs.  HUB_REPO_LIST is a list the user edits (every entry of the   *)
(* source is commented out); an entry "owner/repo" is modelled already     *)
(* split, with `full` the text f"{owner}/{repo}" of the repo column.       *)
(***************************************************************************)
HubA == [owner |-> "cdcepi", repo |-> "flu-hub", full |-> "cdcepi/flu-hub"]
HubB == [owner |-> "reichlab", repo |-> "variant-hub", full |-> "reichlab/variant-hub"]
HubC == [owner |-> "reichlab", repo |-> "flu-hub", full |-> "reichlab/flu-hub"]

\* the lists the run may be configured with: the list as shipped (empty), two
\* hubs, two hubs that break assumption 6 of the module docstring, and one
\* hub twice (main runs again for the same repository)
HubLists == {<<>>, <<HubA, HubB>>, <<HubA, HubC>>, <<HubA, HubA>>}

RepoNames == {HubA.repo, HubB.repo, HubC.repo}

\* the repo and dir columns in ascending text order
SortedRepos == <<HubA.full, HubC.full, HubB.full>>
SortedDirs == <<"model-output", "target-data">>

Rank(sorted, x) == CHOOSE i \in 1..Len(sorted) : sorted[i] = x

NameM == <<"2", "0", "2", "3", "-", "0", "1", "-", "0", "7", "-", "t", "-", "m">> \o DotCsv

MoPath == <<"model-output">>
TdPath == <<"target-data">>
MoSub == Append(MoPath, SubDir)

Page(status, items) == [status |-> status, items |-> items]

\* what a hub's model-output directory may hold
ModelOutputRemotes ==
    { \* two files on two pages
      (MoPath :> <<Page(200, <<FileEntry(MoPath, NameM)>>),
                   Page(200, <<FileEntry(MoPath, NameB)>>)>>),
      \* the same file name at two levels
      (MoPath :> <<Page(200, <<DirEntry(MoPath, SubDir), FileEntry(MoPath, NameM)>>)>>)
        @@ (MoSub :> <<Page(200, <<FileEntry(MoSub, NameM)>>)>>),
      \* the listing fails
      (MoPath :> <<Page(500, <<>>)>>),
      \* no model-output directory (404)
      (MoPath :> <<Page(404, <<>>)>>) }

\* what a hub's target-data directory may hold
TargetDataRemotes ==
    { \* no target-data directory (404)
      (TdPath :> <<Page(404, <<>>)>>),
      \* one file
      (TdPath :> <<Page(200, <<FileEntry(TdPath, NameA)>>)>>),
      \* the second page of the listing fails
      (TdPath :> <<Page(200, <<FileEntry(TdPath, NameA)>>), Page(403, <<>>)>>) }

HubRemotes == {td @@ mo : mo \in ModelOutputRemotes, td \in TargetDataRemotes}

(***************************************************************************)
(* Tables and files.                                                       *)
(***************************************************************************)
NoFile == [exists |-> FALSE, rows |-> <<>>]
ParquetFile(rows) == [exists |-> TRUE, rows |-> rows]

NoBatch == [state |-> "none", files |-> <<>>, outcomes |-> <<>>, order |-> <<>>]

Pending == [done |-> FALSE, raised |-> FALSE, file |-> <<>>, count |-> 0]

NoReports == [state |-> "none", detail |-> <<>>, summary |-> <<>>]

VARIABLES
    lremote,    \* listing: the remote the call runs against
    ldir,       \* listing: the directory argument of the call
    lpc,        \* listing: "ready" before the call, "returned" after it
    lresult,    \* listing: what the call returned ([raised, files, failed])
    lfile,      \* label: the file name of the row the label is derived for
    llabel,     \* label: the model_id of the row
    token,      \* whether GITHUB_TOKEN is set in the environment
    pc,         \* where the script is
    exc,        \* the exception that ended the run, "none" when there is none
    net,        \* the kinds of network request issued so far
    hubList,    \* HUB_REPO_LIST
    repoIdx,    \* the position of the outer loop in HUB_REPO_LIST
    dirIdx,     \* the position of main's loop in Directories
    hubRemote,  \* the remote of the repository being processed
    files,      \* main: the files of the current batch
    futures,    \* main: the futures of the current batch, in submission order
    completed,  \* the indices of the finished tasks, in order of completion
    batch,      \* per directory of the current repository: files and outcomes
    repo_line_counts,  \* main: the running table of the repository
    disk,       \* the output directory: repository name -> parquet file
    reports,    \* hub_stats.csv and hub_stats_summary.csv
    phase,      \* per entry of HUB_REPO_LIST: the state of its processing
    script,     \* the entry point that runs
    session,    \* the requests session of the script
    orgRemote,  \* the pages of the organisation's repository listing
    reposUrl,   \* get_all_repos: the page to request next, 0 for none
    repos,      \* get_all_repos: the repositories gathered so far
    todo,       \* the repositories a mutating request is due for
    todoIdx,    \* the position of the loop over todo
    update_count,  \* the successful updates so far
    mutations,  \* the mutating requests issued, with their responses
    logs,       \* the log events that matter: token errors, final counts
    wire,       \* the requests answered with an error status, and how often
                \* the session sent each
    prev        \* per repository: what the last finished run of main saw and
                \* the rows of the output file it left

lvars == <<lremote, ldir, lpc, lresult, lfile, llabel>>

hvars == <<token, pc, exc, net, hubList, repoIdx, dirIdx, hubRemote, files, futures,
           completed, batch, repo_line_counts, disk, reports, phase>>

hrest == <<hubList, repoIdx, dirIdx, hubRemote, files, futures, completed, batch,
           repo_line_counts, disk, reports, phase>>

avars == <<script, orgRemote, reposUrl, repos, todo, todoIdx, update_count,
           mutations, logs>>

vars == <<lremote, ldir, lpc, lresult, lfile, llabel, token, pc, exc, net, hubList, repoIdx,
          dirIdx, hubRemote, files, futures, completed, batch, repo_line_counts,
          disk, reports, phase, script, session, orgRemote, reposUrl, repos, todo,
          todoIdx, update_count, mutations, logs, wire, prev>>

\* no session yet
NoSession == [made |-> FALSE, total |-> 0, methods |-> {}, forcelist |-> {}]

\* main has not finished for any repository
NoRun == [runs |-> 0, seen |-> <<>>, rows |-> <<>>, again |-> FALSE]
NoRuns == [h \in {HubA.full, HubB.full, HubC.full} |-> NoRun]

\* the organisation scripts at rest
AdminRest ==
    /\ orgRemote = <<>>
    /\ reposUrl = 0
    /\ repos = <<>>
    /\ todo = <<>>
    /\ todoIdx = 0
    /\ update_count = 0
    /\ mutations = <<>>
    /\ logs = <<>>

\* the hub script's own variables at rest
HubRest ==
    /\ hubList = <<>>
    /\ repoIdx = 0
    /\ dirIdx = 0
    /\ hubRemote = <<>>
    /\ files = <<>>
    /\ futures = <<>>
    /\ completed = <<>>
    /\ batch = [d \in Range(Directories) |-> NoBatch]
    /\ repo_line_counts = <<>>
    /\ disk = [r \in RepoNames |-> NoFile]
    /\ reports = NoReports
    /\ phase = <<>>

\* every script at rest (while a listing call is examined on its own)
HubIdle ==
    /\ token = TRUE
    /\ pc = "off"
    /\ exc = "none"
    /\ net = {}
    /\ script = "get_hub_stats"
    /\ session = NoSession
    /\ wire = {}
    /\ prev = NoRuns
    /\ HubRest
    /\ AdminRest

\* no label derived yet
NoLabel == [null |-> TRUE, value |-> <<>>]

\* the listing call and the derivation of a label at rest
ListIdle ==
    /\ lremote = <<>>
    /\ ldir = Directories[1]
    /\ lpc = "off"
    /\ lresult = [raised |-> FALSE, files |-> <<>>, failed |-> 0]
    /\ lfile = <<>>
    /\ llabel = NoLabel

NoResult == [raised |-> FALSE, files |-> <<>>, failed |-> 0]

InitList ==
    /\ lremote \in Remotes
    /\ ldir \in Range(Directories)
    /\ lpc = "ready"
    /\ lresult = NoResult
    /\ lfile = <<>>
    /\ llabel = NoLabel
    /\ HubIdle

\* a call list_files_in_directory(owner, repo, ldir)
ListCall ==
    /\ lpc = "ready"
    /\ lresult' = list_files_in_directory(lremote, ldir)
    /\ lpc' = "returned"
    /\ UNCHANGED <<lremote, ldir, lfile, llabel>>
    /\ UNCHANGED <<hvars, avars, session, wire, prev>>

NextList == ListCall

SpecList == InitList /\ [][NextList]_vars

(***************************************************************************)
(* The model_id column on its own (get_hub_stats.py:113-130): one result   *)
(* (file name, count) of a batch of `ldir` becomes a row of count_df.      *)
(***************************************************************************)
\* the characters after the first 11 of a file name, at most
MaxTail == 3

\* a date and a separator: 11 characters
DatePrefix == <<"2", "0", "2", "3", "-", "0", "1", "-", "0", "7", "-">>

TailChars == {"-", "_", ".", "m"}

\* file names: the date prefix and a tail, or less than the prefix
FileNames ==
    {DatePrefix \o t : t \in SeqsUpTo(TailChars, MaxTail)}
    \cup {SubSeq(DatePrefix, 1, k) : k \in 1..(Len(DatePrefix) - 1)}

InitLabel ==
    /\ lfile \in FileNames
    /\ ldir \in Range(Directories)
    /\ lpc = "named"
    /\ llabel = NoLabel
    /\ lremote = <<>>
    /\ lresult = NoResult
    /\ HubIdle

\* count_df for the one result, and the model_id of its row
LabelRow ==
    /\ lpc = "named"
    /\ llabel' = CountDf(<<[file |-> lfile, count |-> 1]>>, ldir, HubA.full)[1].model_id
    /\ lpc' = "labelled"
    /\ UNCHANGED <<lremote, ldir, lresult, lfile>>
    /\ UNCHANGED <<hvars, avars, session, wire, prev>>

NextLabel == LabelRow

SpecLabel == InitLabel /\ [][NextLabel]_vars

(***************************************************************************)
(* get_hub_stats.py as a script: module initialisation, the loop over      *)
(* HUB_REPO_LIST, main, write_csv.                                         *)
(***************************************************************************)
\* a table an earlier run left in the output directory
PriorRows ==
    <<[file |-> NameB, row_count |-> 1, dir |-> "target-data",
       repo |-> HubB.full, model_id |-> ModelId("target-data", NameB)]>>

InitialDisks ==
    {[r \in RepoNames |-> NoFile],
     [r \in RepoNames |-> IF r = HubB.repo THEN ParquetFile(PriorRows) ELSE NoFile]}

\* get_hub_stats.py:83-84: requests.Session() with the token header; no
\* retry adapter is mounted
PlainSession == [made |-> TRUE, total |-> 0, methods |-> {}, forcelist |-> {}]

\* how often a session sends a request that is answered with `status` every
\* time: the adapter's Retry (util/session.py:20-26) sends it again, up to
\* `total` times, when the method is allowed and the status is on the
\* forcelist; a session without the adapter sends it once
Sends(sess, method, status) ==
    IF method \in sess.methods /\ status \in sess.forcelist
    THEN 1 + sess.total
    ELSE 1

\* Retry leaves raise_on_status at its default: once the retries are used up
\* the adapter raises (requests.exceptions.RetryError) instead of returning
\* the response
RetriesExhausted(sess, method, status) == Sends(sess, method, status) > 1

\* a request answered with an error status
Answered(sess, kind, method, status) ==
    [kind |-> kind, method |-> method, status |-> status,
     sends |-> Sends(sess, method, status)]

InitHub ==
    /\ ListIdle
    /\ AdminRest
    /\ script = "get_hub_stats"
    /\ session = NoSession
    /\ wire = {}
    /\ prev = NoRuns
    /\ token \in BOOLEAN
    /\ pc = "start"
    /\ exc = "none"
    /\ net = {}
    /\ hubList \in HubLists
    /\ repoIdx = 0
    /\ dirIdx = 0
    /\ hubRemote = <<>>
    /\ files = <<>>
    /\ futures = <<>>
    /\ completed = <<>>
    /\ batch = [d \in Range(Directories) |-> NoBatch]
    /\ repo_line_counts = <<>>
    /\ disk \in InitialDisks
    \* a file of an earlier run is left in the directory of the runs that
    \* could rewrite it (an empty list, or a list that names its hub)
    /\ (disk[HubB.repo].exists => hubList \in {<<>>, <<HubA, HubB>>})
    /\ reports = NoReports
    /\ phase = [i \in 1..Len(hubList) |-> "Idle"]

\* get_hub_stats.py:79-84: os.environ["GITHUB_TOKEN"], ValueError without it
HubModuleInit ==
    /\ script = "get_hub_stats"
    /\ pc = "start"
    /\ IF token
       THEN pc' = "main_loop" /\ exc' = exc /\ session' = PlainSession
       ELSE pc' = "stopped" /\ exc' = "ValueError" /\ session' = session
    /\ UNCHANGED <<token, net, hubList, repoIdx, dirIdx, hubRemote, files, futures,
                   completed, batch, repo_line_counts, disk, reports, phase>>
    /\ UNCHANGED <<lvars, avars, wire, prev>>

\* get_hub_stats.py:251-254 and 95-99: the next entry of HUB_REPO_LIST, main
\* starts with an empty table; the remote is what the repository then holds
NextRepo ==
    /\ pc = "main_loop"
    /\ repoIdx < Len(hubList)
    /\ repoIdx' = repoIdx + 1
    /\ hubRemote' \in HubRemotes
    /\ dirIdx' = 1
    /\ repo_line_counts' = <<>>
    /\ batch' = [d \in Range(Directories) |-> NoBatch]
    /\ phase' = [phase EXCEPT ![repoIdx + 1] = "Discovering"]
    /\ pc' = "discover"
    /\ UNCHANGED <<token, exc, net, hubList, files, futures, completed, disk, reports>>
    /\ UNCHANGED <<lvars, avars, session, wire, prev>>

\* get_hub_stats.py:133: output_dir / f"{repo}.parquet"
OutputFileOfFirst(hub) == hubList[1].repo
OutputFile(hub) == hub.repo

\* the end of one turn of "for directory in [...]" with the table as it now
\* is: the next directory, or (get_hub_stats.py:133-136) write_parquet and
\* return to the outer loop
\* get_hub_stats.py:134: repo_line_counts.write_parquet(parquet_file) replaces
\* what the file held
AppendParquet(old, table) == ParquetFile(old.rows \o table)
WriteParquet(old, table) == ParquetFile(table)

\* what a run of main saw: per directory the files listed and the count
\* count_rows returned for each
Seen(b) ==
    [d \in Range(Directories) |->
        [files  |-> b[d].files,
         counts |-> [i \in DOMAIN b[d].files |->
                        count_rows(b[d].files[i], b[d].outcomes[i]).count]]]

EndOfDirectory(table) ==
    IF dirIdx < Len(Directories)
    THEN /\ dirIdx' = dirIdx + 1
         /\ pc' = "discover"
         /\ phase' = [phase EXCEPT ![repoIdx] = "Discovering"]
         /\ disk' = disk
         /\ prev' = prev
    ELSE /\ dirIdx' = dirIdx
         /\ pc' = "main_loop"
         /\ phase' = [phase EXCEPT ![repoIdx] = "Persisted"]
         /\ LET file == OutputFile(hubList[repoIdx])
                h == hubList[repoIdx].full
            IN  /\ disk' = [disk EXCEPT ![file] = WriteParquet(disk[file], table)]
                /\ prev' = [prev EXCEPT ![h] =
                      [runs  |-> IF prev[h].runs < 2 THEN prev[h].runs + 1 ELSE 2,
                       seen  |-> Seen(batch'),
                       rows  |-> disk'[file].rows,
                       again |-> prev[h].runs > 0 /\ prev[h].seen = Seen(batch')]]

\* get_hub_stats.py:100-106: list the directory; an HTTPError leaves main and
\* the script; no files: continue; else submit one count_rows per file
Discover ==
    /\ pc = "discover"
    /\ LET d == Directories[dirIdx]
           r == list_files_in_directory(hubRemote, d)
       IN  /\ net' = net \cup {"contents"}
           /\ wire' = IF r.raised
                      THEN wire \cup {Answered(session, "contents", "GET", r.failed)}
                      ELSE wire
           /\ IF r.raised
              THEN /\ pc' = "crashed"
                   /\ exc' = "HTTPError"
                   /\ UNCHANGED <<dirIdx, files, futures, completed, batch, disk, phase,
                                  prev>>
              ELSE IF Len(r.files) = 0
              THEN /\ batch' = [batch EXCEPT ![d] = [NoBatch EXCEPT !.state = "empty"]]
                   /\ EndOfDirectory(repo_line_counts)
                   /\ UNCHANGED <<exc, files, futures, completed>>
              ELSE /\ files' = r.files
                   /\ futures' = [i \in 1..Len(r.files) |-> Pending]
                   /\ completed' = <<>>
                   /\ batch' = [batch EXCEPT ![d] =
                         [state |-> "counting", files |-> r.files, order |-> <<>>,
                          outcomes |-> [i \in 1..Len(r.files) |-> [kind |-> "pending", n |-> 0, status |-> 0]]]]
                   /\ pc' = "count"
                   /\ phase' = [phase EXCEPT ![repoIdx] = "Counting"]
                   /\ UNCHANGED <<exc, dirIdx, disk, prev>>
    /\ UNCHANGED <<token, hubList, repoIdx, hubRemote, repo_line_counts, reports>>
    /\ UNCHANGED <<lvars, avars, session>>

\* one task of the thread pool: count_rows(files[i]) runs to its end
CountRows(i) ==
    /\ pc = "count"
    /\ ~futures[i].done
    /\ \E o \in Outcomes(files[i]) :
         LET r == count_rows(files[i], o)
         IN  /\ futures' = [futures EXCEPT ![i] =
                   [done |-> TRUE, raised |-> r.raised, file |-> r.file, count |-> r.count]]
             /\ batch' = [batch EXCEPT ![Directories[dirIdx]].outcomes[i] = o]
             /\ wire' = IF RaisesForStatus(o.status)
                        THEN wire \cup {Answered(session, "download", "GET", o.status)}
                        ELSE wire
    /\ completed' = Append(completed, i)
    /\ net' = net \cup {"download"}
    /\ UNCHANGED <<token, pc, exc, hubList, repoIdx, dirIdx, hubRemote, files,
                   repo_line_counts, disk, reports, phase>>
    /\ UNCHANGED <<lvars, avars, session, prev>>

\* leaving "with ThreadPoolExecutor() as executor" waits for every task
ExecutorJoinedOnFirst(futs) == \E i \in DOMAIN futs : futs[i].done
ExecutorJoined(futs) == \A i \in DOMAIN futs : futs[i].done

\* get_hub_stats.py:105-108: the pool is left, and f.result() hands over each
\* result (or raises what the task raised)
Join ==
    /\ pc = "count"
    /\ ExecutorJoined(futures)
    /\ IF \E i \in DOMAIN futures : futures[i].raised
       THEN pc' = "crashed" /\ exc' = "CountError" /\ phase' = phase
       ELSE /\ pc' = "aggregate"
            /\ exc' = exc
            /\ phase' = [phase EXCEPT ![repoIdx] = "Aggregating"]
    /\ UNCHANGED <<token, net, hubList, repoIdx, dirIdx, hubRemote, files, futures,
                   completed, batch, repo_line_counts, disk, reports>>
    /\ UNCHANGED <<lvars, avars, session, wire, prev>>

\* results taken as the tasks complete (concurrent.futures.as_completed)
AllResultsAsCompleted(futs, order) ==
    [k \in 1..Len(order) |-> [file |-> futs[order[k]].file, count |-> futs[order[k]].count]]

\* get_hub_stats.py:108: all_results = [f.result() for f in futures]
AllResults(futs, order) ==
    [i \in 1..Len(futs) |-> [file |-> futs[i].file, count |-> futs[i].count]]

\* get_hub_stats.py:108-136: group and sum the results, add the columns, append
\* to the running table; files, futures and the order of completion are
\* rebound by the next batch and are cleared here
Aggregate ==
    /\ pc = "aggregate"
    /\ LET d == Directories[dirIdx]
           count_df == CountDf(AllResults(futures, completed), d, hubList[repoIdx].full)
           table == IF Len(count_df) > 0 THEN repo_line_counts \o count_df
                    ELSE repo_line_counts
       IN  /\ repo_line_counts' = table
           /\ batch' = [batch EXCEPT ![d].state = "aggregated", ![d].order = completed]
           /\ EndOfDirectory(table)
    /\ files' = <<>>
    /\ futures' = <<>>
    /\ completed' = <<>>
    /\ UNCHANGED <<token, exc, net, hubList, repoIdx, hubRemote, reports>>
    /\ UNCHANGED <<lvars, avars, session, wire>>

\* glob order of the parquet files of the output directory
SortedRepoNames == <<HubA.repo, HubB.repo>>

RECURSIVE SumRowCounts(_)
SumRowCounts(rows) ==
    IF rows = <<>> THEN 0 ELSE Head(rows).row_count + SumRowCounts(Tail(rows))

SelectSeq2(rows, repo, dir) ==
    SelectSeq(rows, LAMBDA r : r.repo = repo /\ r.dir = dir)

\* GROUP BY repo only
SummaryByRepo(hub_stats) ==
    LET groups == [k \in 1..(Len(SortedRepos) * Len(SortedDirs)) |->
                     [repo |-> SortedRepos[((k - 1) \div Len(SortedDirs)) + 1],
                      dir  |-> SortedDirs[((k - 1) % Len(SortedDirs)) + 1]]]
        present == SelectSeq(groups,
                     LAMBDA g : SelectSeq2(hub_stats, g.repo, g.dir) # <<>>)
    IN  [k \in 1..Len(present) |->
            [repo |-> present[k].repo, dir |-> present[k].dir,
             row_count |-> SumRowCounts(
                 SelectSeq(hub_stats, LAMBDA r : r.repo = present[k].repo))]]

\* SELECT repo, dir, SUM(row_count) FROM self GROUP BY repo, dir ORDER BY repo, dir
Summary(hub_stats) ==
    LET groups == [k \in 1..(Len(SortedRepos) * Len(SortedDirs)) |->
                     [repo |-> SortedRepos[((k - 1) \div Len(SortedDirs)) + 1],
                      dir  |-> SortedDirs[((k - 1) % Len(SortedDirs)) + 1]]]
        present == SelectSeq(groups,
                     LAMBDA g : SelectSeq2(hub_stats, g.repo, g.dir) # <<>>)
    IN  [k \in 1..Len(present) |->
            [repo |-> present[k].repo, dir |-> present[k].dir,
             row_count |-> SumRowCounts(
                 SelectSeq2(hub_stats, present[k].repo, present[k].dir))]]

\* pl.read_parquet(f"{output_dir}/*.parquet"): the rows of every file
ReadParquet(d) ==
    Flatten([k \in 1..Len(SortedRepoNames) |->
                IF d[SortedRepoNames[k]].exists THEN d[SortedRepoNames[k]].rows ELSE <<>>])

\* get_hub_stats.py:243-244: "except pl.exceptions.ComputeError" around the
\* whole of write_csv: the message is printed and the function returns
CaughtNever(e) == FALSE
Caught(e) == e = "ComputeError"

\* get_hub_stats.py:255-256 and 219-244: write_csv.  No parquet file: polars
\* raises ComputeError, which is caught.  A file written from an empty
\* DataFrame has no columns; what polars then does is not in this repository:
\* the read may raise ComputeError (caught) or another error (not caught); it
\* may pass with a frame without columns, so that an empty detail file is
\* written and the SQL query fails on the missing columns (with ComputeError,
\* caught, or with another error); or, when another file has the columns, it
\* may pass with the rows of the files that have them.
WriteCsv ==
    /\ pc = "main_loop"
    /\ repoIdx = Len(hubList)
    /\ LET present == {r \in RepoNames : disk[r].exists}
           hub_stats == ReadParquet(disk)
       IN  IF present = {}
           THEN IF Caught("ComputeError")
                THEN /\ reports' = [NoReports EXCEPT !.state = "nothing"]
                     /\ pc' = "done"
                     /\ exc' = exc
                ELSE /\ reports' = reports
                     /\ pc' = "crashed"
                     /\ exc' = "ComputeError"
           ELSE IF \E r \in present : disk[r].rows = <<>>
           THEN \/ /\ reports' = [NoReports EXCEPT !.state = "nothing"]
                   /\ pc' = "done"
                   /\ exc' = exc
                \/ /\ reports' = reports
                   /\ pc' = "crashed"
                   /\ exc' = "PolarsError"
                \/ /\ reports' = [NoReports EXCEPT !.state = "detail_only"]
                   /\ pc' = "crashed"
                   /\ exc' = "PolarsError"
                \/ /\ reports' = [NoReports EXCEPT !.state = "detail_only"]
                   /\ Caught("ComputeError")
                   /\ pc' = "done"
                   /\ exc' = exc
                \/ /\ hub_stats # <<>>
                   /\ reports' = [state |-> "written", detail |-> hub_stats,
                                  summary |-> Summary(hub_stats)]
                   /\ pc' = "done"
                   /\ exc' = exc
           ELSE /\ reports' = [state |-> "written", detail |-> hub_stats,
                               summary |-> Summary(hub_stats)]
                /\ pc' = "done"
                /\ exc' = exc
    /\ UNCHANGED <<token, net, hubList, repoIdx, dirIdx, hubRemote, files, futures,
                   completed, batch, repo_line_counts, disk, phase>>
    /\ UNCHANGED <<lvars, avars, session, wire, prev>>

(***************************************************************************)
(* The organisation scripts: add_repo_rulesets.py, archive_repos.py and    *)
(* list_repos.py of reichlab_repo_utils; app.py and archive_repos.py of    *)
(* standardize_repo_settings.                                              *)
(***************************************************************************)
AdminScripts ==
    {"add_repo_rulesets", "archive_repos", "list_repos", "srs_app", "srs_archive_repos"}

\* util/session.py:8-29: get_session
UtilSession ==
    [made |-> TRUE, total |-> 5, methods |-> {"GET", "POST", "PATCH"},
     forcelist |-> {429, 500, 502, 503, 504}]

\* standardize_repo_settings/app.py:52-73: get_session
AppSession ==
    [made |-> TRUE, total |-> 5, methods |-> {"GET", "POST"},
     forcelist |-> {500, 502, 503, 504}]

\* standardize_repo_settings/util/session.py (not among the sources): a
\* session that retries transient server errors and rate-limit responses
SrsUtilSession ==
    [made |-> TRUE, total |-> 5, methods |-> {"GET", "POST", "PATCH"},
     forcelist |-> {429, 500, 502, 503, 504}]

SessionFor(s) ==
    IF s = "srs_app" THEN AppSession
    ELSE IF s = "srs_archive_repos" THEN SrsUtilSession
    ELSE UtilSession

\* the allow-lists
\* reichlab_repo_utils/__init__.py (not among the sources)
UtilsArchiveRepoList == {"duck-hub", "zoltpy"}
UtilsRulesetRepoList == {"reichlab-python-template", "zoltpy"}
\* standardize_repo_settings/app.py:18-49
REPO_LIST == {"reichlab-python-template"}
\* standardize_repo_settings/archive_repos.py:18-80
ARCHIVE_REPO_LIST == {"duck-hub"}

OrgRepo(name, archived) == [name |-> name, archived |-> archived]

\* what the organisation's repository listing may hold
OrgRemotes ==
    { <<Page(200, <<OrgRepo("duck-hub", FALSE), OrgRepo("reichlab-python-template", FALSE),
                    OrgRepo("zoltpy", FALSE)>>)>>,
      <<Page(200, <<OrgRepo("duck-hub", FALSE)>>),
        Page(200, <<OrgRepo("reichlab-python-template", TRUE), OrgRepo("zoltpy", FALSE)>>)>>,
      <<Page(200, <<OrgRepo("duck-hub", TRUE)>>), Page(500, <<>>)>>,
      <<Page(401, <<>>)>> }

\* the statuses a mutating request may be answered with
MutationStatuses == {200, 422, 429, 500}

\* response.ok
ResponseOk(status) == status < 400

InitAdmin ==
    /\ ListIdle
    /\ HubRest
    /\ script \in AdminScripts
    /\ session = NoSession
    /\ wire = {}
    /\ prev = NoRuns
    /\ token \in BOOLEAN
    /\ pc = "start"
    /\ exc = "none"
    /\ net = {}
    /\ orgRemote \in OrgRemotes
    /\ reposUrl = 0
    /\ repos = <<>>
    /\ todo = <<>>
    /\ todoIdx = 0
    /\ update_count = 0
    /\ mutations = <<>>
    /\ logs = <<>>

\* "if not token: logger.error(...); return": every main but app.py's, which
\* passes what os.getenv returned on to get_session
ChecksToken(s) == s # "srs_app"

\* main up to the call of the script's function: the token check, get_session
\* (and, for the ruleset scripts, load_branch_ruleset, which reads a file of
\* the package)
AdminMain ==
    /\ script \in AdminScripts
    /\ pc = "start"
    /\ IF ChecksToken(script) /\ ~token
       THEN /\ logs' = Append(logs, [event |-> "token_required", count |-> 0])
            /\ pc' = "stopped"
            /\ UNCHANGED <<session, reposUrl>>
       ELSE /\ session' = SessionFor(script)
            /\ reposUrl' = 1
            /\ pc' = "get_repos"
            /\ logs' = logs
    /\ UNCHANGED <<token, exc, net, script, orgRemote, repos, todo, todoIdx,
                   update_count, mutations, wire>>
    /\ UNCHANGED <<lvars, hrest, prev>>

\* the repositories a script sends a mutating request for, in listing order
ReposToUpdate(s, rs) ==
    IF s \in {"archive_repos"}
    THEN SelectSeq(rs, LAMBDA r : r.name \in UtilsArchiveRepoList /\ r.archived = FALSE)
    ELSE IF s = "srs_archive_repos"
    THEN SelectSeq(rs, LAMBDA r : r.name \in ARCHIVE_REPO_LIST /\ r.archived = FALSE)
    ELSE IF s = "add_repo_rulesets"
    THEN SelectSeq(rs, LAMBDA r : r.name \in UtilsRulesetRepoList /\ r.archived = FALSE)
    ELSE IF s = "srs_app"
    THEN SelectSeq(rs, LAMBDA r : r.name \in REPO_LIST)
    ELSE <<>>

\* the final log line with a count: list_repos counts the repositories, the
\* archive and ruleset scripts the successful updates, app.py logs none
FinalLog(s, n) ==
    IF s = "srs_app" THEN <<>> ELSE <<[event |-> "complete", count |-> n]>>

\* one turn of get_all_repos' loop: a page of the listing; after the last
\* page the script filters the repositories against its list
GetReposPage ==
    /\ pc = "get_repos"
    /\ net' = net \cup {"org_repos"}
    /\ LET page == orgRemote[reposUrl]
           all == repos \o page.items
           due == ReposToUpdate(script, all)
       IN  IF RaisesForStatus(page.status)
           THEN /\ pc' = "crashed"
                /\ exc' = IF RetriesExhausted(session, "GET", page.status)
                          THEN "RetryError" ELSE "HTTPError"
                /\ wire' = wire \cup {Answered(session, "org_repos", "GET", page.status)}
                /\ UNCHANGED <<reposUrl, repos, todo, todoIdx, logs>>
           ELSE /\ repos' = all
                /\ exc' = exc
                /\ wire' = wire
                /\ IF reposUrl < Len(orgRemote)
                   THEN /\ reposUrl' = reposUrl + 1
                        /\ pc' = "get_repos"
                        /\ UNCHANGED <<todo, todoIdx, logs>>
                   ELSE /\ reposUrl' = 0
                        /\ todo' = due
                        /\ todoIdx' = 1
                        /\ IF script = "list_repos"
                           THEN pc' = "done" /\ logs' = logs \o FinalLog(script, Len(all))
                           ELSE IF due = <<>>
                           THEN pc' = "done" /\ logs' = logs \o FinalLog(script, 0)
                           ELSE pc' = "update" /\ logs' = logs
    /\ UNCHANGED <<token, script, session, orgRemote, update_count, mutations>>
    /\ UNCHANGED <<lvars, hrest, prev>>

\* session.patch(repo_url, json={"archived": True}) or
\* session.post(branch_protection_url, json=branch_ruleset)
MutationMethod(s) ==
    IF s \in {"archive_repos", "srs_archive_repos"} THEN "PATCH" ELSE "POST"

\* one turn of the loop over the repositories to update: the request, the
\* count of the successful ones, and the final log line after the last one;
\* a request whose retries are used up raises out of the loop and of main
UpdateRepo ==
    /\ pc = "update"
    /\ \E status \in MutationStatuses :
         LET method == MutationMethod(script)
             count == IF ResponseOk(status) THEN update_count + 1 ELSE update_count
         IN  /\ mutations' = Append(mutations,
                   [method |-> method, repo |-> todo[todoIdx].name, status |-> status])
             /\ wire' = IF RaisesForStatus(status)
                        THEN wire \cup {Answered(session, "mutation", method, status)}
                        ELSE wire
             /\ IF RetriesExhausted(session, method, status)
                THEN /\ pc' = "crashed"
                     /\ exc' = "RetryError"
                     /\ UNCHANGED <<update_count, todoIdx, logs>>
                ELSE /\ update_count' = count
                     /\ exc' = exc
                     /\ IF todoIdx < Len(todo)
                        THEN todoIdx' = todoIdx + 1 /\ pc' = "update" /\ logs' = logs
                        ELSE /\ todoIdx' = todoIdx
                             /\ pc' = "done"
                             /\ logs' = logs \o FinalLog(script, count)
    /\ net' = net \cup {"mutation"}
    /\ UNCHANGED <<token, script, session, orgRemote, reposUrl, repos, todo>>
    /\ UNCHANGED <<lvars, hrest, prev>>

Next ==
    \/ HubModuleInit
    \/ NextRepo
    \/ Discover
    \/ \E i \in DOMAIN futures : CountRows(i)
    \/ Join
    \/ Aggregate
    \/ WriteCsv
    \/ AdminMain
    \/ GetReposPage
    \/ UpdateRepo

Init == InitHub \/ InitAdmin

Spec == Init /\ [][Next]_vars

(***************************************************************************)
(* What a listing is expected to return, stated from the remote tree alone *)
(* (no pages, no loop): the entries of a directory in API order, the       *)
(* directories below the top one, and the place of a file in the tree.     *)
(***************************************************************************)
\* all entries of directory `path`, over all its pages, in API order
Entries(remote, path) ==
    IF path \in DOMAIN remote
    THEN Flatten([k \in 1..Len(remote[path]) |-> remote[path][k].items])
    ELSE <<>>

RECURSIVE TreeDirs(_, _)
\* the directories of the tree: the least set holding `dirs` and closed under
\* the "dir" entries of its members
TreeDirs(remote, dirs) ==
    LET more == dirs \cup {e.path : e \in UNION {
                    {x \in Range(Entries(remote, p)) : x.type = "dir"} : p \in dirs}}
    IN  IF more = dirs THEN dirs ELSE TreeDirs(remote, more)

\* every request of the walk below `top` is answered 200
AllSuccessful(remote, top) ==
    \A p \in TreeDirs(remote, {top}) :
        /\ p \in DOMAIN remote
        /\ \A k \in 1..Len(remote[p]) : remote[p][k].status = 200

\* the download URLs of the .csv and .parquet files of the tree
TreeDataUrls(remote, top) ==
    {e.download_url : e \in UNION {
        {x \in Range(Entries(remote, p)) :
            /\ x.type = "file"
            /\ PathSuffix(x.name) \in {DotCsv, DotParquet}} :
        p \in TreeDirs(remote, {top})}}

\* position of the entry of directory `path` that leads to (or is) `url`
StepIndex(remote, path, url) ==
    LET es == Entries(remote, path)
    IN  CHOOSE i \in 1..Len(es) :
            IF url.path = path
            THEN es[i].type = "file" /\ es[i].download_url = url
            ELSE es[i].type = "dir" /\ es[i].path = SubSeq(url.path, 1, Len(path) + 1)

\* the positions along the way from the top directory down to the file
TreePosition(remote, url) ==
    [d \in 1..Len(url.path) |-> StepIndex(remote, SubSeq(url.path, 1, d), url)]

\* lexicographic order of positions (no position is a prefix of another: a
\* name is a file or a directory)
LexLess(v, w) ==
    \E d \in 1..Len(v) :
        /\ d <= Len(w)
        /\ \A c \in 1..(d - 1) : v[c] = w[c]
        /\ v[d] < w[d]

----------------------------------------------------------------------------
\* C1: a call whose listing request is answered 404 returns an empty file
\* list and does not raise.
C1_NotFoundIsEmpty ==
    (lpc = "returned" /\ Respond(lremote, <<ldir>>, 1).status = 404)
        => (~lresult.raised /\ lresult.files = <<>>)

\* C1 witness: a call returned for a directory whose first page is a 404
C1_Witness ==
    /\ lpc = "returned"
    /\ <<ldir>> \in DOMAIN lremote
    /\ lremote[<<ldir>>][1].status = 404
    /\ ~lresult.raised
    /\ lresult.files = <<>>

\* C4: with no file-count limit and every response successful, the call
\* returns exactly the download URLs of the .csv and .parquet files of the
\* directory tree, each once, in API listing order with a subdirectory's
\* files at the subdirectory's position.
C4_ListsExactlyDataFiles ==
    (lpc = "returned" /\ FILE_COUNT = 0 /\ AllSuccessful(lremote, <<ldir>>))
        => /\ ~lresult.raised
           /\ Range(lresult.files) = TreeDataUrls(lremote, <<ldir>>)
           /\ Injective(lresult.files)
           /\ \A i, j \in 1..Len(lresult.files) :
                  i < j => LexLess(TreePosition(lremote, lresult.files[i]),
                                   TreePosition(lremote, lresult.files[j]))

\* C4 witness: a successful walk over two pages of the top directory and two
\* pages of a subdirectory that returned files of both levels
C4_Witness ==
    /\ lpc = "returned"
    /\ AllSuccessful(lremote, <<ldir>>)
    /\ Len(lremote[<<ldir>>]) = 2
    /\ SubPath \in TreeDirs(lremote, {<<ldir>>})
    /\ Len(lremote[SubPath]) = 2
    /\ Len(lresult.files) >= 3
    /\ \E i, j \in 1..Len(lresult.files) :
           Len(lresult.files[i].path) = 1 /\ Len(lresult.files[j].path) = 2

----------------------------------------------------------------------------
(***************************************************************************)
(* Claims about the hub script.                                            *)
(***************************************************************************)
\* some request of the walk below `top` is answered with an error status
\* other than 404
ListingFails(rem, top) ==
    \E p \in TreeDirs(rem, {top}) \cap DOMAIN rem :
        \E k \in 1..Len(rem[p]) : rem[p][k].status \notin {200, 404}

CurrentDir == Directories[dirIdx]

\* C2 as stated: after a listing error every repository that comes later in
\* HUB_REPO_LIST is still attempted by the outer loop.
C2_LaterReposAttempted ==
    (script = "get_hub_stats" /\ pc = "crashed" /\ exc = "HTTPError")
        => \A i \in (repoIdx + 1)..Len(hubList) : phase[i] # "Idle"

\* C2 amended: a listing error (a status other than success and 404) aborts
\* the batch (no file of it is counted), leaves main and the outer loop, and
\* ends the run: the repository is not persisted, no later repository is
\* attempted and write_csv does not run.
C2_ListingErrorEndsRun ==
    /\ \A d \in Range(Directories) :
           batch[d].state # "none" => ~ListingFails(hubRemote, <<d>>)
    /\ (script = "get_hub_stats" /\ exc = "HTTPError") =>
           /\ pc = "crashed"
           /\ ~ENABLED Next
           /\ ListingFails(hubRemote, <<CurrentDir>>)
           /\ batch[CurrentDir].state = "none"
           /\ phase[repoIdx] = "Discovering"
           /\ \A i \in (repoIdx + 1)..Len(hubList) : phase[i] = "Idle"
           /\ reports = NoReports

\* C2 witness: the listing of target-data failed in the first of two
\* repositories, after its model-output batch was aggregated
C2_Witness ==
    /\ exc = "HTTPError"
    /\ Len(hubList) = 2
    /\ repoIdx = 1
    /\ dirIdx = 2
    /\ batch["model-output"].state = "aggregated"
    /\ phase[2] = "Idle"

\* the count a file contributes: its rows, nothing when counting it failed
Contribution(o) == IF o.kind = "ok" THEN o.n ELSE 0

RECURSIVE SumOver(_, _)
\* the sum of f over a finite set of indices
SumOver(f, idx) ==
    IF idx = {} THEN 0
    ELSE LET i == CHOOSE x \in idx : TRUE IN f[i] + SumOver(f, idx \ {i})

RowsOfDir(table, d) == SelectSeq(table, LAMBDA r : r.dir = d)

\* C3: a failure while counting one file is not propagated by count_rows: the
\* task returns (file_name, 0), every other file of the batch contributes its
\* own count, and the repository's file is still persisted.
C3_CountFailureIsLocal ==
    /\ exc # "CountError"
    /\ \A i \in DOMAIN futures :
           (futures[i].done /\ batch[CurrentDir].outcomes[i].kind = "error")
               => (~futures[i].raised /\ futures[i].file = files[i].name
                   /\ futures[i].count = 0)
    /\ \A d \in Range(Directories) :
           batch[d].state = "aggregated" =>
               \A i \in DOMAIN batch[d].files :
                   \E k \in DOMAIN repo_line_counts :
                       /\ repo_line_counts[k].dir = d
                       /\ repo_line_counts[k].file = batch[d].files[i].name
                       /\ repo_line_counts[k].row_count =
                             SumOver([j \in DOMAIN batch[d].files |->
                                         Contribution(batch[d].outcomes[j])],
                                     {j \in DOMAIN batch[d].files :
                                         batch[d].files[j].name = batch[d].files[i].name})
    /\ (repoIdx >= 1 /\ pc = "main_loop") =>
           /\ phase[repoIdx] = "Persisted"
           /\ disk[hubList[repoIdx].repo] = ParquetFile(repo_line_counts)

\* C3 witness: a repository was persisted although counting one file of a
\* batch failed, and another file of that batch has its count in the table
C3_Witness ==
    /\ repoIdx >= 1
    /\ pc = "main_loop"
    /\ \E d \in Range(Directories) :
           /\ batch[d].state = "aggregated"
           /\ \E i, j \in DOMAIN batch[d].files :
                  /\ batch[d].outcomes[i].kind = "error"
                  /\ batch[d].outcomes[j].kind = "ok"
                  /\ batch[d].files[i].name # batch[d].files[j].name
                  /\ \E k, l \in DOMAIN disk[hubList[repoIdx].repo].rows :
                         LET rows == disk[hubList[repoIdx].repo].rows
                         IN  /\ rows[k].file = batch[d].files[i].name
                             /\ rows[k].dir = d
                             /\ rows[k].row_count = 0
                             /\ rows[l].file = batch[d].files[j].name
                             /\ rows[l].dir = d
                             /\ rows[l].row_count = batch[d].outcomes[j].n

\* the counts count_rows returned for the files of an aggregated batch
Returned(d) ==
    [i \in DOMAIN batch[d].files |->
        count_rows(batch[d].files[i], batch[d].outcomes[i]).count]

\* C5: in the table of one repository a file name has at most one row per
\* directory, and its row_count is the sum of the counts count_rows returned
\* for the discovered files of that directory with that name.
C5_OneRowPerNameSummed ==
    \A d \in Range(Directories) :
        batch[d].state = "aggregated" =>
            LET rows == RowsOfDir(repo_line_counts, d)
            IN  /\ \A k, l \in DOMAIN rows : rows[k].file = rows[l].file => k = l
                /\ {rows[k].file : k \in DOMAIN rows}
                       = {batch[d].files[i].name : i \in DOMAIN batch[d].files}
                /\ \A k \in DOMAIN rows :
                       /\ rows[k].repo = hubList[repoIdx].full
                       /\ rows[k].row_count =
                             SumOver(Returned(d),
                                     {i \in DOMAIN batch[d].files :
                                         batch[d].files[i].name = rows[k].file})

\* C5 witness: a batch with two files of one name, both counted, gave one row
\* with the sum
C5_Witness ==
    \E d \in Range(Directories) :
        /\ batch[d].state = "aggregated"
        /\ Len(batch[d].files) = 2
        /\ batch[d].files[1].name = batch[d].files[2].name
        /\ batch[d].outcomes[1].kind = "ok"
        /\ batch[d].outcomes[2].kind = "ok"
        /\ Len(RowsOfDir(repo_line_counts, d)) = 1
        /\ RowsOfDir(repo_line_counts, d)[1].row_count
               = batch[d].outcomes[1].n + batch[d].outcomes[2].n

\* (repo, dir) pairs in ascending order: by repo, then by dir
PairLess(a, b) ==
    \/ Rank(SortedRepos, a.repo) < Rank(SortedRepos, b.repo)
    \/ /\ a.repo = b.repo
       /\ Rank(SortedDirs, a.dir) < Rank(SortedDirs, b.dir)

\* C6: after write_csv, the summary has exactly one row for every (repo, dir)
\* pair of the detail table, with the sum of the pair's detail rows, no row
\* for any other pair, and is ordered by repo, then dir; the detail table
\* holds the rows of the persisted files.
C6_SummaryMatchesDetail ==
    LET detail == reports.detail
        summary == reports.summary
    IN  /\ \A i \in DOMAIN detail :
               \E k \in DOMAIN summary :
                   /\ summary[k].repo = detail[i].repo
                   /\ summary[k].dir = detail[i].dir
        /\ \A k \in DOMAIN summary :
               LET idx == {i \in DOMAIN detail :
                              /\ detail[i].repo = summary[k].repo
                              /\ detail[i].dir = summary[k].dir}
               IN  /\ idx # {}
                   /\ summary[k].row_count =
                         SumOver([i \in DOMAIN detail |-> detail[i].row_count], idx)
        /\ \A k, l \in DOMAIN summary : k < l => PairLess(summary[k], summary[l])
        /\ reports.state = "written" =>
               /\ detail # <<>>
               /\ \A r \in RepoNames : \A i \in DOMAIN disk[r].rows :
                      \E j \in DOMAIN detail : detail[j] = disk[r].rows[i]
               /\ \A j \in DOMAIN detail :
                      \E r \in RepoNames : \E i \in DOMAIN disk[r].rows :
                          detail[j] = disk[r].rows[i]

\* C6 witness: reports written over two repositories with both directories
C6_Witness ==
    /\ reports.state = "written"
    /\ Len(reports.summary) = 4
    /\ Len(reports.detail) > 4
    /\ \E k \in DOMAIN reports.summary : reports.summary[k].row_count >= 2

\* the first position of a file name among the files of batch d
FirstIndex(d, name) ==
    CHOOSE i \in DOMAIN batch[d].files :
        /\ batch[d].files[i].name = name
        /\ \A j \in 1..(i - 1) : batch[d].files[j].name # name

\* C7: the table of a batch (rows, counts and order) is determined by the
\* list of discovered files and the per-file results, whatever the order in
\* which the tasks completed: rows come in the order of the files' first
\* occurrence in the list.
C7_TableIndependentOfCompletion ==
    \A d \in Range(Directories) :
        batch[d].state = "aggregated" =>
            LET rows == RowsOfDir(repo_line_counts, d)
                names == {batch[d].files[i].name : i \in DOMAIN batch[d].files}
            IN  /\ Len(rows) = Cardinality(names)
                /\ \A k \in DOMAIN rows : rows[k].file \in names
                /\ \A k, l \in DOMAIN rows :
                       k < l => FirstIndex(d, rows[k].file) < FirstIndex(d, rows[l].file)
                /\ \A k \in DOMAIN rows :
                       rows[k].row_count =
                           SumOver([i \in DOMAIN batch[d].files |->
                                       Contribution(batch[d].outcomes[i])],
                                   {i \in DOMAIN batch[d].files :
                                       batch[d].files[i].name = rows[k].file})

\* C7 witness: two files with different names, the second finished first, and
\* the rows are in the order of the list
C7_Witness ==
    \E d \in Range(Directories) :
        /\ batch[d].state = "aggregated"
        /\ batch[d].order = <<2, 1>>
        /\ Len(RowsOfDir(repo_line_counts, d)) = 2
        /\ RowsOfDir(repo_line_counts, d)[1].file = batch[d].files[1].name
        /\ RowsOfDir(repo_line_counts, d)[2].file = batch[d].files[2].name

AllHubs == {HubA, HubB, HubC}

\* C8 as stated: running main for one owner/name repository leaves the file
\* of every other owner/name repository unchanged.
C8_OtherReposUnchanged ==
    [][repoIdx >= 1 =>
          \A h \in AllHubs :
              h # hubList[repoIdx] => disk'[OutputFile(h)] = disk[OutputFile(h)]]_vars

\* C8 amended: running main for a repository replaces the file named after
\* its repository name by the table of this run, and leaves the file of every
\* other repository name unchanged (two owner/name pairs with one repository
\* name share a file).
C8_OtherNamesUnchanged ==
    /\ [][\A r \in RepoNames :
              disk'[r] # disk[r] =>
                  /\ repoIdx >= 1
                  /\ r = hubList[repoIdx].repo
                  /\ disk'[r] = ParquetFile(repo_line_counts')
                  /\ phase'[repoIdx] = "Persisted"]_vars
    /\ [][\A i \in DOMAIN phase :
              (phase[i] # "Persisted" /\ phase'[i] = "Persisted")
                  => disk'[hubList[i].repo] = ParquetFile(repo_line_counts')]_vars

\* C8 witness: the second repository was persisted beside the first one's file
C8_Witness ==
    /\ hubList = <<HubA, HubB>>
    /\ phase[2] = "Persisted"
    /\ disk[HubA.repo].exists
    /\ disk[HubA.repo].rows # <<>>
    /\ disk[HubB.repo].exists
    /\ disk[HubB.repo].rows # PriorRows
    /\ \A k \in DOMAIN disk[HubA.repo].rows : disk[HubA.repo].rows[k].repo = HubA.full

ActivePhases == {"Discovering", "Counting", "Aggregating"}

PhaseSteps ==
    {<<"Idle", "Discovering">>, <<"Discovering", "Counting">>,
     <<"Counting", "Aggregating">>, <<"Aggregating", "Discovering">>,
     <<"Aggregating", "Persisted">>, <<"Discovering", "Persisted">>}

\* C9: a repository goes Discovering, Counting, Aggregating (once per
\* directory with files) and then Persisted: a batch is aggregated only after
\* every count_rows task of it has finished, the file is persisted only after
\* every batch of the repository is aggregated (or found empty), and the
\* repositories are processed one at a time, in list order.
C9_PhasesSequential ==
    /\ [](\A r \in DOMAIN phase :
            /\ phase[r] = "Aggregating" =>
                   /\ r = repoIdx
                   /\ futures # <<>>
                   /\ \A i \in DOMAIN futures : futures[i].done
            /\ (phase[r] = "Persisted" /\ r = repoIdx) =>
                   \A d \in Range(Directories) :
                       batch[d].state \in {"aggregated", "empty"}
            /\ phase[r] \in ActivePhases => r = repoIdx
            /\ \A q \in DOMAIN phase :
                   (q < r /\ phase[r] # "Idle") => phase[q] = "Persisted")
    /\ [][\A r \in DOMAIN phase :
              phase'[r] # phase[r] => <<phase[r], phase'[r]>> \in PhaseSteps]_vars

\* C9 witness: the second repository is aggregating its second batch while the
\* first is persisted
C9_Witness ==
    /\ Len(hubList) = 2
    /\ phase[1] = "Persisted"
    /\ phase[2] = "Aggregating"
    /\ dirIdx = 2
    /\ batch["model-output"].state = "aggregated"
    /\ Len(futures) >= 1

----------------------------------------------------------------------------
(***************************************************************************)
(* Claims about the entry points.                                          *)
(***************************************************************************)
TokenErrorReported ==
    \/ exc = "ValueError"
    \/ \E k \in DOMAIN logs : logs[k].event = "token_required"

\* C10: in every entry point, when GITHUB_TOKEN is absent the run stops with a
\* reported configuration error and no network request is ever issued.
C10_NoTokenNoRequest ==
    ~token =>
        /\ net = {}
        /\ pc \in {"stopped", "done", "crashed"} => TokenErrorReported

\* the same for every entry point but app.py of standardize_repo_settings
NoTokenNoRequestWhereChecked ==
    (~token /\ script # "srs_app") =>
        /\ net = {}
        /\ ~session.made
        /\ pc \in {"start", "stopped"}
        /\ pc = "stopped" => TokenErrorReported


(***************************************************************************)
(* C11: retries of the session.                                            *)
(***************************************************************************)
\* a transient server error (5xx) or a rate-limit response (429)
Transient(status) == status = 429 \/ (500 <= status /\ status < 600)

\* C11: every request answered with a transient server error or a rate-limit
\* response was sent again, a bounded number of times, and the same number of
\* times whatever the request.
C11_TransientRetried ==
    /\ \A w \in wire :
           Transient(w.status) => (1 < w.sends /\ w.sends <= 1 + UtilSession.total)
    /\ \A v, w \in wire :
           (Transient(v.status) /\ Transient(w.status)) => v.sends = w.sends

\* the scripts of reichlab_repo_utils that build their session with
\* util/session.py: there the statement of C11 holds
UsesUtilSession == script \in {"add_repo_rulesets", "archive_repos", "list_repos"}

RetriedThroughUtilSession == UsesUtilSession => C11_TransientRetried

(***************************************************************************)
(* C12: write_csv without any per-repository file.                         *)
(***************************************************************************)
NoRepoFile == \A r \in RepoNames : ~disk[r].exists

\* C12: a step of write_csv from an output directory that holds no
\* per-repository file reports that there is nothing to summarize and returns
\* normally: no exception, and neither the detail report nor the summary
\* report is written.
C12_NothingToSummarize ==
    [][(pc = "main_loop" /\ repoIdx = Len(hubList) /\ pc' # pc /\ NoRepoFile)
          => /\ pc' = "done"
             /\ exc' = "none"
             /\ reports' = [NoReports EXCEPT !.state = "nothing"]]_vars

C12_Witness ==
    /\ script = "get_hub_stats"
    /\ pc = "done"
    /\ NoRepoFile
    /\ reports.state = "nothing"

(***************************************************************************)
(* C13: the label of a row.                                                *)
(***************************************************************************)
\* the text after the first n characters of s
DropFirst(s, n) == IF Len(s) <= n THEN <<>> ELSE SubSeq(s, n + 1, Len(s))

\* label is the text t cut at its first period
CutAtFirstPeriod(t, label) ==
    /\ \A i \in DOMAIN label : label[i] # "."
    /\ Len(label) <= Len(t)
    /\ SubSeq(t, 1, Len(label)) = label
    /\ (Len(label) < Len(t) => t[Len(label) + 1] = ".")

\* C13 as stated: the label of a model-output row is the file name without its
\* first 11 characters, cut at the first period; a target-data row has none.
C13_LabelIsNameCut ==
    lpc = "labelled" =>
        IF ldir = "model-output"
        THEN ~llabel.null /\ CutAtFirstPeriod(DropFirst(lfile, 11), llabel.value)
        ELSE llabel.null

\* C13, amended: the label of a model-output row is the file name without its
\* first 11 characters and without the underscores and hyphens that then
\* lead it, cut at the first period; a target-data row has no label.
C13_LabelIsStrippedNameCut ==
    lpc = "labelled" =>
        IF ldir = "model-output"
        THEN /\ ~llabel.null
             /\ \E k \in 0..Len(DropFirst(lfile, 11)) :
                    LET rest == DropFirst(lfile, 11)
                        t == DropFirst(rest, k)
                    IN  /\ \A i \in 1..k : rest[i] \in {"_", "-"}
                        /\ (t # <<>> => t[1] \notin {"_", "-"})
                        /\ CutAtFirstPeriod(t, llabel.value)
        ELSE llabel.null

\* a label that the leading hyphen does not belong to
C13_Witness ==
    /\ lpc = "labelled"
    /\ ldir = "model-output"
    /\ lfile = DatePrefix \o <<"-", "m", ".">>
    /\ llabel = [null |-> FALSE, value |-> <<"m">>]

(***************************************************************************)
(* C14: main run again for the same repository.                            *)
(***************************************************************************)
FullNames == {HubA.full, HubB.full, HubC.full}

\* C14: when main finishes for a repository and has seen the same files with
\* the same counts as the run of main for that repository before it, the
\* output file holds the same rows as that earlier run left: the rows are
\* replaced, not appended.
C14_RerunLeavesSameFile ==
    [][\A h \in FullNames :
          (prev[h].runs > 0 /\ prev'[h].runs = 2 /\ prev'[h].seen = prev[h].seen)
              => prev'[h].rows = prev[h].rows]_vars

\* main ran twice for one repository over the same files with the same counts
\* and left rows
C14_Witness ==
    \E h \in FullNames :
        /\ prev[h].runs = 2
        /\ prev[h].again
        /\ Len(prev[h].rows) >= 2
        /\ \E r \in RepoNames : disk[r] = ParquetFile(prev[h].rows)

(***************************************************************************)
(* C15: the mutating requests of archive_repo and apply_branch_ruleset.    *)
(***************************************************************************)
MutatingScripts == {"archive_repos", "srs_archive_repos", "add_repo_rulesets", "srs_app"}

\* the static list a script filters the repositories against
StaticList(s) ==
    IF s = "archive_repos" THEN UtilsArchiveRepoList
    ELSE IF s = "srs_archive_repos" THEN ARCHIVE_REPO_LIST
    ELSE IF s = "add_repo_rulesets" THEN UtilsRulesetRepoList
    ELSE REPO_LIST

\* the listed repositories a mutating request is due for
Eligible(s) ==
    {r \in Range(repos) : r.name \in StaticList(s) /\ r.archived = FALSE}

Succeeded == {i \in DOMAIN mutations : ResponseOk(mutations[i].status)}

\* a mutating request goes only to a listed repository that is on the static
\* list and not archived, once at most
OnlyEligibleOnce ==
    /\ \A i \in DOMAIN mutations :
           \E r \in Eligible(script) : r.name = mutations[i].repo
    /\ \A i, j \in DOMAIN mutations :
           mutations[i].repo = mutations[j].repo => i = j

\* once the run has ended after the listing, every eligible repository had
\* its request, whatever the responses were
NoneLeftOut ==
    (pc \in {"done", "crashed"} /\ todoIdx >= 1) =>
        \A r \in Eligible(script) : \E i \in DOMAIN mutations : mutations[i].repo = r.name

\* the final log line counts the successful responses
CountLogged ==
    (pc \in {"done", "crashed"} /\ todoIdx >= 1) =>
        /\ logs # <<>>
        /\ logs[Len(logs)] = [event |-> "complete", count |-> Cardinality(Succeeded)]

\* C15: in a run of archive_repo or apply_branch_ruleset a mutating request is
\* issued only for listed repositories on the static list that are not
\* archived, at most once each; a failed response does not keep the remaining
\* repositories from being processed; the final logged count is the number of
\* successful responses.
C15_MutationsFilteredAndCounted ==
    script \in MutatingScripts => (OnlyEligibleOnce /\ NoneLeftOut /\ CountLogged)

\* what holds of the three functions that filter on the archived flag: the
\* filter and the count as stated, and no repository left out unless a
\* request used up its retries
FilteredWhereArchivedIsRead ==
    script \in MutatingScripts \ {"srs_app"} =>
        /\ OnlyEligibleOnce
        /\ (exc # "RetryError" => (NoneLeftOut /\ CountLogged))
        /\ \A i \in DOMAIN mutations :
               (i < Len(mutations) => ~RetriesExhausted(session, mutations[i].method,
                                                        mutations[i].status))

====
